------------------------------ MODULE Spec2Model ------------------------------
(***************************************************************************)
(* A model of V1_emoji_defense.py: sanitize_unicode and the whitespace     *)
(* tokenizer of create_basic_tokenizer.                                    *)
(*                                                                         *)
(* A string is a sequence of Unicode code points (integers).  The Unicode  *)
(* primitives the program delegates to (unicodedata.normalize,             *)
(* unicodedata.category, regex \X and \p{Emoji}) are modelled on a fixed   *)
(* universe of code points, with the properties the Unicode Character      *)
(* Database gives them:                                                    *)
(*   U+0020..U+007E  printable ASCII                                       *)
(*   U+00A9, U+00AE  copyright and registered signs (Emoji)                *)
(*   U+0301          COMBINING ACUTE ACCENT (Mn, ccc 230, Extend)          *)
(*   the 34 precomposed letters  <ASCII letter, U+0301>                    *)
(*   U+200B, U+200C, U+200D, U+2060, U+FE0E, U+FE0F  (DEFAULT_DISALLOWED)  *)
(*   U+E000          a private-use code point (Co)                         *)
(*   U+FF01..U+FF5E  fullwidth ASCII (NFKC maps each to its ASCII form)    *)
(*   U+1F30D, U+1F44B  emoji (So, Emoji, Extended_Pictographic)            *)
(***************************************************************************)
EXTENDS Integers, Sequences, FiniteSets, TLC

(***************************************************************************)
(* Bounds of the model.                                                    *)
(***************************************************************************)
\* longest input text of the general specification
MaxLen == 3
\* longest input text of each of the two interleaved calls
IsoLen == 1
\* number of passes of one call frame: the second pass re-sanitizes the
\* output of the first
MaxPasses == 2

(***************************************************************************)
(* Code points.                                                            *)
(***************************************************************************)
\* the code points of DEFAULT_DISALLOWED
ZWSP == 8203
ZWNJ == 8204
ZWJ == 8205
WJ == 8288
VS15 == 65038
VS16 == 65039
\* further code points of the universe, by name
CP == [ SPACE |-> 32, QMARK |-> 63, LatinA |-> 97, LatinD |-> 100, LatinX |-> 120,
        ACUTE |-> 769, AAcute |-> 225, PUA |-> 57344, FullwidthA |-> 65345,
        FullwidthOne |-> 65297, GLOBE |-> 127757, WAVE |-> 128075 ]

(***************************************************************************)
(* Sequence helpers.                                                       *)
(***************************************************************************)
RECURSIVE Join(_)
\* ''.join(parts)
Join(parts) ==
    IF parts = << >> THEN << >> ELSE Head(parts) \o Join(Tail(parts))

Chars(s) == { s[i] : i \in 1..Len(s) }

(***************************************************************************)
(* unicodedata.normalize('NFKC', text) on the universe.                    *)
(***************************************************************************)
\* canonical compositions <starter, composite> of a starter with U+0301
AcuteCompositions ==
    { <<65, 193>>, <<67, 262>>, <<69, 201>>, <<71, 500>>, <<73, 205>>, <<75, 7728>>,
      <<76, 313>>, <<77, 7742>>, <<78, 323>>, <<79, 211>>, <<80, 7764>>, <<82, 340>>,
      <<83, 346>>, <<85, 218>>, <<87, 7810>>, <<89, 221>>, <<90, 377>>, <<97, 225>>,
      <<99, 263>>, <<101, 233>>, <<103, 501>>, <<105, 237>>, <<107, 7729>>, <<108, 314>>,
      <<109, 7743>>, <<110, 324>>, <<111, 243>>, <<112, 7765>>, <<114, 341>>, <<115, 347>>,
      <<117, 250>>, <<119, 7811>>, <<121, 253>>, <<122, 378>> }

HasAcuteComposite(cp) == \E p \in AcuteCompositions : p[1] = cp

AcuteComposite(cp) == (CHOOSE p \in AcuteCompositions : p[1] = cp)[2]

IsAcuteComposite(cp) == \E p \in AcuteCompositions : p[2] = cp

\* full compatibility decomposition of one code point
Decompose(cp) ==
    IF cp >= 65281 /\ cp <= 65374 THEN << cp - 65248 >>
    ELSE IF IsAcuteComposite(cp)
         THEN << (CHOOSE p \in AcuteCompositions : p[2] = cp)[1], CP.ACUTE >>
         ELSE << cp >>

RECURSIVE DecomposeAll(_)
DecomposeAll(s) ==
    IF s = << >> THEN << >> ELSE Decompose(Head(s)) \o DecomposeAll(Tail(s))

\* canonical composition: U+0301 is the only code point of the universe with
\* a non-zero combining class, so it composes exactly with a starter that
\* immediately precedes it in the output built so far
RECURSIVE ComposeFrom(_, _)
ComposeFrom(out, rest) ==
    IF rest = << >> THEN out
    ELSE LET c == Head(rest) IN
         IF c = CP.ACUTE /\ out # << >> /\ HasAcuteComposite(out[Len(out)])
         THEN ComposeFrom(SubSeq(out, 1, Len(out) - 1)
                              \o << AcuteComposite(out[Len(out)]) >>, Tail(rest))
         ELSE ComposeFrom(Append(out, c), Tail(rest))

NFKC(s) == ComposeFrom(<< >>, DecomposeAll(s))

(***************************************************************************)
(* unicodedata.category(ch) on the universe.                               *)
(***************************************************************************)
\* general categories of U+0020..U+007E
AsciiCategory ==
    << "Zs", "Po", "Po", "Po", "Sc", "Po", "Po", "Po", "Ps", "Pe", "Po", "Sm",
       "Po", "Pd", "Po", "Po", "Nd", "Nd", "Nd", "Nd", "Nd", "Nd", "Nd", "Nd",
       "Nd", "Nd", "Po", "Po", "Sm", "Sm", "Sm", "Po", "Po", "Lu", "Lu", "Lu",
       "Lu", "Lu", "Lu", "Lu", "Lu", "Lu", "Lu", "Lu", "Lu", "Lu", "Lu", "Lu",
       "Lu", "Lu", "Lu", "Lu", "Lu", "Lu", "Lu", "Lu", "Lu", "Lu", "Lu", "Ps",
       "Po", "Pe", "Sk", "Pc", "Sk", "Ll", "Ll", "Ll", "Ll", "Ll", "Ll", "Ll",
       "Ll", "Ll", "Ll", "Ll", "Ll", "Ll", "Ll", "Ll", "Ll", "Ll", "Ll", "Ll",
       "Ll", "Ll", "Ll", "Ll", "Ll", "Ll", "Ll", "Ps", "Sm", "Pe", "Sm" >>

Category(cp) ==
    IF cp >= 32 /\ cp <= 126 THEN AsciiCategory[cp - 31]
    ELSE IF cp >= 65281 /\ cp <= 65374 THEN AsciiCategory[cp - 65248 - 31]
    ELSE IF IsAcuteComposite(cp)
         THEN AsciiCategory[(CHOOSE p \in AcuteCompositions : p[2] = cp)[1] - 31]
    ELSE IF cp \in {169, 174, CP.GLOBE, CP.WAVE} THEN "So"
    ELSE IF cp \in {CP.ACUTE, VS15, VS16} THEN "Mn"
    ELSE IF cp \in {ZWSP, ZWNJ, ZWJ, WJ} THEN "Cf"
    ELSE IF cp = CP.PUA THEN "Co"
    ELSE "Cn"

(***************************************************************************)
(* EMOJI_PATTERN = \p{Emoji} and GRAPHEME_PATTERN = \X on the universe.    *)
(***************************************************************************)
\* the Emoji property: it holds of the keycap bases # * 0..9 too
IsEmoji(cp) == cp \in ({35, 42, 169, 174, CP.GLOBE, CP.WAVE} \cup (48..57))

\* EMOJI_PATTERN.search(cluster)
EMOJI_PATTERN(cluster) == \E i \in 1..Len(cluster) : IsEmoji(cluster[i])

\* Grapheme_Cluster_Break property
GCB(cp) ==
    IF cp \in {ZWSP, WJ} THEN "Control"
    ELSE IF cp \in {CP.ACUTE, ZWNJ, VS15, VS16} THEN "Extend"
    ELSE IF cp = ZWJ THEN "ZWJ"
    ELSE "Other"

ExtendedPictographic(cp) == cp \in {169, 174, CP.GLOBE, CP.WAVE}

\* GB11: s[j] is a ZWJ preceded by  Extended_Pictographic Extend*
RECURSIVE PictographicBefore(_, _)
PictographicBefore(s, j) ==
    IF j < 1 THEN FALSE
    ELSE IF ExtendedPictographic(s[j]) THEN TRUE
    ELSE IF GCB(s[j]) = "Extend" THEN PictographicBefore(s, j - 1)
    ELSE FALSE

\* is there a grapheme cluster boundary between s[i-1] and s[i] (UAX #29)
BreakBefore(s, i) ==
    IF GCB(s[i - 1]) = "Control" \/ GCB(s[i]) = "Control" THEN TRUE      \* GB4, GB5
    ELSE IF GCB(s[i]) \in {"Extend", "ZWJ"} THEN FALSE                    \* GB9
    ELSE IF /\ GCB(s[i - 1]) = "ZWJ" /\ ExtendedPictographic(s[i])
            /\ PictographicBefore(s, i - 2) THEN FALSE                    \* GB11
    ELSE TRUE                                                             \* GB999

RECURSIVE SegmentFrom(_, _, _)
\* the clusters of s from position start on; i scans for the next boundary
SegmentFrom(s, start, i) ==
    IF start > Len(s) THEN << >>
    ELSE IF i > Len(s) THEN << SubSeq(s, start, Len(s)) >>
    ELSE IF BreakBefore(s, i)
         THEN << SubSeq(s, start, i - 1) >> \o SegmentFrom(s, i, i + 1)
         ELSE SegmentFrom(s, start, i + 1)

\* GRAPHEME_PATTERN.findall(normalized_text)
GRAPHEME_PATTERN(s) == SegmentFrom(s, 1, 2)

(***************************************************************************)
(* Tokenizers.  The tokenizer is supplied by the caller; the model draws   *)
(* it from a small family.  A tokenizer is a record                        *)
(*   kind   "split": the basic_tokenizer of create_basic_tokenizer()       *)
(*          "chars": the builtin  list  (one token per code point)         *)
(*   failOn a code point: the tokenizer raises on every text containing    *)
(*          it (0: it never raises)                                        *)
(***************************************************************************)
max_length == 50

\* str.isspace
IsSpace(cp) ==
    cp \in ((9..13) \cup (28..32) \cup {133, 160, 5760, 8232, 8233, 8239, 8287, 12288}
              \cup (8192..8202))

RECURSIVE SplitFrom(_, _)
\* text.split(): the maximal runs of non-whitespace; cur is the run being read
SplitFrom(cur, rest) ==
    IF rest = << >> THEN (IF cur = << >> THEN << >> ELSE << cur >>)
    ELSE IF IsSpace(Head(rest))
         THEN (IF cur = << >> THEN << >> ELSE << cur >>) \o SplitFrom(<< >>, Tail(rest))
         ELSE SplitFrom(Append(cur, Head(rest)), Tail(rest))

Truncate(token) ==
    IF Len(token) > max_length THEN SubSeq(token, 1, max_length) ELSE token

basic_tokenizer(text) ==
    LET tokens == SplitFrom(<< >>, text)
    IN  [i \in 1..Len(tokens) |-> Truncate(tokens[i])]

TokenizerRaises(tk, text) == tk.failOn # 0 /\ tk.failOn \in Chars(text)

\* the tokens tokenizer(text) returns when it returns
Tokenize(tk, text) ==
    IF tk.kind = "split" THEN basic_tokenizer(text)
    ELSE [i \in 1..Len(text) |-> << text[i] >>]

(***************************************************************************)
(* The module-level defaults and the per-cluster checks of                 *)
(* sanitize_unicode.                                                       *)
(***************************************************************************)
DisallowedLiteral == {ZWSP, ZWNJ, ZWJ, WJ, VS15, VS16}

DangerousLiteral == {"Co", "Cn", "Cs", "Cf"}

DefaultMaxTokens == 3

\* faulty variant of MergeDefaults: disallowed = DEFAULT (no copy), so that
\* update() changes the module-level set as well
MergeAliased(default, custom) ==
    [local |-> default \cup custom, global |-> default \cup custom]

\* disallowed = DEFAULT.copy(); if custom: disallowed.update(custom).
\* local is the set the call goes on to use, global the module-level set after
\* the two statements.  A custom argument of None is the empty set.
MergeDefaults(default, custom) ==
    [local |-> default \cup custom, global |-> default]

\* faulty variant of ContainsDisallowed: only the first code point is looked at
ContainsDisallowedLoose(cluster, dis) ==
    cluster # << >> /\ cluster[1] \in dis

\* Check 1: any(ch in disallowed for ch in cluster)
ContainsDisallowed(cluster, dis) ==
    \E i \in 1..Len(cluster) : cluster[i] \in dis

\* faulty variant of EmojiCheck: allow_emoji is ignored
EmojiCheckAlways(allow_emoji, cluster) == EMOJI_PATTERN(cluster)

\* Check 2: not allow_emoji and EMOJI_PATTERN.search(cluster)
EmojiCheck(allow_emoji, cluster) == ~allow_emoji /\ EMOJI_PATTERN(cluster)

\* faulty variant of CategoryCheck: strict_mode is ignored
CategoryCheckUngated(strict_mode, cluster, dangerous) ==
    \E i \in 1..Len(cluster) : Category(cluster[i]) \in dangerous

\* Check 3: strict_mode and any(unicodedata.category(ch) in dangerous_categories ...)
CategoryCheck(strict_mode, cluster, dangerous) ==
    strict_mode /\ \E i \in 1..Len(cluster) : Category(cluster[i]) \in dangerous

\* faulty variant of TokenExplosion: >= for >
TokenExplosionInclusive(tokens, max_tokens) == Len(tokens) >= max_tokens

\* Check 4: len(tokenizer(cluster)) > max_tokens
TokenExplosion(tokens, max_tokens) == Len(tokens) > max_tokens

\* faulty variant of Chosen: a kept cluster loses all but its first code point
ChosenTruncated(replace, replacement, cluster) ==
    IF replace THEN replacement ELSE << Head(cluster) >>

\* replacement if should_replace else cluster
Chosen(replace, replacement, cluster) ==
    IF replace THEN replacement ELSE cluster

(***************************************************************************)
(* State.  Each call of sanitize_unicode has a frame; Calls names the      *)
(* frames.  pc[c] is "none" (the frame is not used), "idle" (the call has  *)
(* not started), "loop" (in the for loop, about to handle clusters[idx]),  *)
(* "returned" or "raised".                                                 *)
(***************************************************************************)
Calls == {1, 2}

NoResult == << -1 >>

VARIABLES
    DEFAULT_DISALLOWED,             \* the module-level set
    DEFAULT_DANGEROUS_CATEGORIES,   \* the module-level set
    args,                   \* the arguments of the call
    pc,
    disallowed,             \* local: the merged disallowed set
    dangerous_categories,   \* local: the merged dangerous categories
    clusters,               \* local
    idx,                    \* position of the for loop in clusters
    sanitized_clusters,     \* local
    should_replace,         \* the values of should_replace, one per cluster handled
    tokenizerCalls,         \* the texts the tokenizer was invoked with, in order
    result,                 \* what the call returned, NoResult before
    pass,                   \* 1 for a call on the input, 2 on the output of pass 1, ...
    prevResult              \* what the previous pass returned

vars == << DEFAULT_DISALLOWED, DEFAULT_DANGEROUS_CATEGORIES, args, pc, disallowed,
           dangerous_categories, clusters, idx, sanitized_clusters, should_replace,
           tokenizerCalls, result, pass, prevResult >>

globals == << DEFAULT_DISALLOWED, DEFAULT_DANGEROUS_CATEGORIES >>

\* checks 1 to 3 of the elif chain: one of them sets should_replace, and the
\* tokenizer is not invoked
EarlyReject(c, cluster) ==
    \/ ContainsDisallowed(cluster, disallowed[c])
    \/ EmojiCheck(args[c].allow_emoji, cluster)
    \/ CategoryCheck(args[c].strict_mode, cluster, dangerous_categories[c])

\* lines 107-123: merge the configuration, normalize, segment
Enter(c) ==
    /\ pc[c] = "idle"
    /\ LET d == MergeDefaults(DEFAULT_DISALLOWED, args[c].custom_disallowed)
           g == MergeDefaults(DEFAULT_DANGEROUS_CATEGORIES,
                              args[c].custom_dangerous_categories)
       IN  /\ DEFAULT_DISALLOWED' = d.global
           /\ DEFAULT_DANGEROUS_CATEGORIES' = g.global
           /\ disallowed' = [disallowed EXCEPT ![c] = d.local]
           /\ dangerous_categories' = [dangerous_categories EXCEPT ![c] = g.local]
    /\ clusters' = [clusters EXCEPT ![c] = GRAPHEME_PATTERN(NFKC(args[c].text))]
    /\ idx' = [idx EXCEPT ![c] = 1]
    /\ sanitized_clusters' = [sanitized_clusters EXCEPT ![c] = << >>]
    /\ pc' = [pc EXCEPT ![c] = "loop"]
    /\ UNCHANGED << args, should_replace, tokenizerCalls, result, pass, prevResult >>

\* one iteration of the loop in which check 1, 2 or 3 rejects the cluster
RejectCluster(c) ==
    /\ pc[c] = "loop"
    /\ idx[c] <= Len(clusters[c])
    /\ LET cluster == clusters[c][idx[c]] IN
       /\ EarlyReject(c, cluster)
       /\ should_replace' = [should_replace EXCEPT ![c] = Append(@, TRUE)]
       /\ sanitized_clusters' = [sanitized_clusters EXCEPT ![c] =
              Append(@, Chosen(TRUE, args[c].replacement, cluster))]
    /\ idx' = [idx EXCEPT ![c] = @ + 1]
    /\ UNCHANGED << globals, args, pc, disallowed, dangerous_categories, clusters,
                    tokenizerCalls, result, pass, prevResult >>

\* one iteration of the loop that reaches check 4, the tokenizer returning
TokenizeCluster(c) ==
    /\ pc[c] = "loop"
    /\ idx[c] <= Len(clusters[c])
    /\ LET cluster == clusters[c][idx[c]] IN
       /\ ~EarlyReject(c, cluster)
       /\ ~TokenizerRaises(args[c].tokenizer, cluster)
       /\ tokenizerCalls' = [tokenizerCalls EXCEPT ![c] = Append(@, cluster)]
       /\ LET replace == TokenExplosion(Tokenize(args[c].tokenizer, cluster),
                                        args[c].max_tokens)
          IN  /\ should_replace' = [should_replace EXCEPT ![c] = Append(@, replace)]
              /\ sanitized_clusters' = [sanitized_clusters EXCEPT ![c] =
                     Append(@, Chosen(replace, args[c].replacement, cluster))]
    /\ idx' = [idx EXCEPT ![c] = @ + 1]
    /\ UNCHANGED << globals, args, pc, disallowed, dangerous_categories, clusters,
                    result, pass, prevResult >>

\* faulty variant of TokenizerRaise: the error is caught and the cluster
\* replaced, as under  try: ... except Exception: should_replace = True
TokenizerRaiseSwallowed(c) ==
    /\ pc[c] = "loop"
    /\ idx[c] <= Len(clusters[c])
    /\ LET cluster == clusters[c][idx[c]] IN
       /\ ~EarlyReject(c, cluster)
       /\ TokenizerRaises(args[c].tokenizer, cluster)
       /\ tokenizerCalls' = [tokenizerCalls EXCEPT ![c] = Append(@, cluster)]
       /\ should_replace' = [should_replace EXCEPT ![c] = Append(@, TRUE)]
       /\ sanitized_clusters' = [sanitized_clusters EXCEPT ![c] =
              Append(@, args[c].replacement)]
    /\ idx' = [idx EXCEPT ![c] = @ + 1]
    /\ UNCHANGED << globals, args, pc, disallowed, dangerous_categories, clusters,
                    result, pass, prevResult >>

\* one iteration of the loop that reaches check 4, the tokenizer raising: the
\* exception leaves sanitize_unicode, which has no try statement
TokenizerRaise(c) ==
    /\ pc[c] = "loop"
    /\ idx[c] <= Len(clusters[c])
    /\ LET cluster == clusters[c][idx[c]] IN
       /\ ~EarlyReject(c, cluster)
       /\ TokenizerRaises(args[c].tokenizer, cluster)
       /\ tokenizerCalls' = [tokenizerCalls EXCEPT ![c] = Append(@, cluster)]
    /\ pc' = [pc EXCEPT ![c] = "raised"]
    /\ UNCHANGED << globals, args, disallowed, dangerous_categories, clusters, idx,
                    sanitized_clusters, should_replace, result, pass, prevResult >>

\* line 149: the loop is over
Return(c) ==
    /\ pc[c] = "loop"
    /\ idx[c] > Len(clusters[c])
    /\ result' = [result EXCEPT ![c] = Join(sanitized_clusters[c])]
    /\ pc' = [pc EXCEPT ![c] = "returned"]
    /\ UNCHANGED << globals, args, disallowed, dangerous_categories, clusters, idx,
                    sanitized_clusters, should_replace, tokenizerCalls, pass, prevResult >>

\* the caller sanitizes the returned string again, with the same tokenizer and
\* configuration: a new call of sanitize_unicode in the same frame
Resanitize(c) ==
    /\ pc[c] = "returned"
    /\ pass[c] < MaxPasses
    /\ args' = [args EXCEPT ![c].text = result[c]]
    /\ prevResult' = [prevResult EXCEPT ![c] = result[c]]
    /\ pass' = [pass EXCEPT ![c] = @ + 1]
    /\ pc' = [pc EXCEPT ![c] = "idle"]
    /\ result' = [result EXCEPT ![c] = NoResult]
    /\ clusters' = [clusters EXCEPT ![c] = << >>]
    /\ idx' = [idx EXCEPT ![c] = 1]
    /\ sanitized_clusters' = [sanitized_clusters EXCEPT ![c] = << >>]
    /\ should_replace' = [should_replace EXCEPT ![c] = << >>]
    /\ tokenizerCalls' = [tokenizerCalls EXCEPT ![c] = << >>]
    /\ UNCHANGED << globals, disallowed, dangerous_categories >>

Next ==
    \E c \in Calls :
        \/ Enter(c)
        \/ RejectCluster(c)
        \/ TokenizeCluster(c)
        \/ TokenizerRaise(c)
        \/ Return(c)

NextTwice ==
    \E c \in Calls :
        \/ Enter(c)
        \/ RejectCluster(c)
        \/ TokenizeCluster(c)
        \/ TokenizerRaise(c)
        \/ Return(c)
        \/ Resanitize(c)

(***************************************************************************)
(* Inputs and initial states.                                              *)
(***************************************************************************)
Texts(alphabet, n) == UNION { [1..k -> alphabet] : k \in 0..n }

Tokenizer(kind, failOn) == [kind |-> kind, failOn |-> failOn]

\* a frame that is never used
NoArguments ==
    [ text |-> << >>, tokenizer |-> Tokenizer("split", 0), max_tokens |-> DefaultMaxTokens,
      replacement |-> << >>, allow_emoji |-> FALSE, strict_mode |-> TRUE,
      custom_disallowed |-> {}, custom_dangerous_categories |-> {} ]

\* the state before the calls start: live are the frames that will call, each
\* with arguments of argSet
InitWith(live, argSet) ==
    /\ DEFAULT_DISALLOWED = DisallowedLiteral
    /\ DEFAULT_DANGEROUS_CATEGORIES = DangerousLiteral
    /\ \E f \in [live -> argSet] :
           args = [c \in Calls |-> IF c \in live THEN f[c] ELSE NoArguments]
    /\ pc = [c \in Calls |-> IF c \in live THEN "idle" ELSE "none"]
    /\ disallowed = [c \in Calls |-> {}]
    /\ dangerous_categories = [c \in Calls |-> {}]
    /\ clusters = [c \in Calls |-> << >>]
    /\ idx = [c \in Calls |-> 1]
    /\ sanitized_clusters = [c \in Calls |-> << >>]
    /\ should_replace = [c \in Calls |-> << >>]
    /\ tokenizerCalls = [c \in Calls |-> << >>]
    /\ result = [c \in Calls |-> NoResult]
    /\ pass = [c \in Calls |-> 1]
    /\ prevResult = [c \in Calls |-> NoResult]

Alphabet == {CP.LatinA, CP.LatinX, CP.SPACE, CP.ACUTE, ZWSP, CP.WAVE, CP.PUA}

Tokenizers == {Tokenizer("split", 0), Tokenizer("chars", 0), Tokenizer("chars", CP.LatinX)}

\* the arguments of the general specification: any configuration without
\* custom sets
GeneralArguments ==
    [ text : Texts(Alphabet, MaxLen),
      tokenizer : {Tokenizer("split", 0), Tokenizer("chars", CP.LatinX)},
      max_tokens : {1, 2},
      replacement : {<< >>, << CP.QMARK >>},
      allow_emoji : BOOLEAN, strict_mode : BOOLEAN,
      custom_disallowed : {{}}, custom_dangerous_categories : {{}} ]

\* one call
Init == InitWith({1}, GeneralArguments)

Spec == Init /\ [][Next]_vars

\* one call, then the output sanitized again
InitTwice == InitWith({1}, GeneralArguments)

SpecTwice == InitTwice /\ [][NextTwice]_vars

DefaultAlphabet ==
    {CP.LatinA, CP.LatinX, CP.SPACE, CP.ACUTE, ZWSP, VS16, CP.WAVE, CP.FullwidthOne}

\* one call with the default max_tokens, allow_emoji and strict_mode
InitDefault ==
    InitWith({1}, [ text : Texts(DefaultAlphabet, MaxLen), tokenizer : Tokenizers,
                    max_tokens : {DefaultMaxTokens},
                    replacement : {<< >>, << CP.QMARK >>},
                    allow_emoji : {FALSE}, strict_mode : {TRUE},
                    custom_disallowed : {{}, {CP.LatinX}},
                    custom_dangerous_categories : {{}} ])

SpecDefault == InitDefault /\ [][Next]_vars

IsoAlphabet == {CP.LatinA, CP.LatinX, ZWSP}

\* two calls, interleaved, each with its own custom sets
InitIso ==
    InitWith(Calls, [ text : Texts(IsoAlphabet, IsoLen),
                      tokenizer : {Tokenizer("chars", CP.LatinX)},
                      max_tokens : {0, 1},
                      replacement : {<< >>},
                      allow_emoji : {FALSE}, strict_mode : {TRUE},
                      custom_disallowed : {{}, {CP.LatinX}},
                      custom_dangerous_categories : {{}, {"Ll"}} ])

SpecIso == InitIso /\ [][Next]_vars

\* "Hello <U+1F44B> World<U+200D>! Hidden<U+200B> text.", the input of the
\* docstring example
ExampleText ==
    << 72, 101, 108, 108, 111, 32, CP.WAVE, 32, 87, 111, 114, 108, 100, ZWJ, 33, 32,
       72, 105, 100, 100, 101, 110, ZWSP, 32, 116, 101, 120, 116, 46 >>

InitExample ==
    InitWith({1}, [ text : {ExampleText}, tokenizer : Tokenizers,
                    max_tokens : {DefaultMaxTokens}, replacement : {<< >>},
                    allow_emoji : BOOLEAN, strict_mode : BOOLEAN,
                    custom_disallowed : {{}}, custom_dangerous_categories : {{}} ])

SpecExample == InitExample /\ [][Next]_vars

(***************************************************************************)
(* The properties.  They are stated over the arguments of the call, with   *)
(* the checks spelled out, and not over the locals of the model.           *)
(***************************************************************************)
\* the grapheme clusters of the NFKC-normalized input text of call c
NormalizedClusters(c) == GRAPHEME_PATTERN(NFKC(args[c].text))

MergedDisallowed(c) == DisallowedLiteral \cup args[c].custom_disallowed

MergedDangerous(c) == DangerousLiteral \cup args[c].custom_dangerous_categories

HasDisallowed(c, cl) == Chars(cl) \cap MergedDisallowed(c) # {}

HasEmoji(cl) == \E cp \in Chars(cl) : IsEmoji(cp)

HasDangerous(c, cl) == \E cp \in Chars(cl) : Category(cp) \in MergedDangerous(c)

\* the cluster triggers the disallowed check, the emoji check or the category check
TriggersEarly(c, cl) ==
    \/ HasDisallowed(c, cl)
    \/ ~args[c].allow_emoji /\ HasEmoji(cl)
    \/ args[c].strict_mode /\ HasDangerous(c, cl)

TokenCount(c, cl) == Len(Tokenize(args[c].tokenizer, cl))

Started(c) == pc[c] \in {"loop", "returned", "raised"}

\* C1: the output is the concatenation, in cluster order, of one unit per
\* grapheme cluster of the NFKC-normalized text, each unit the cluster's text
\* unchanged or the whole replacement; while the loop runs the units built so
\* far are those of the clusters handled so far.
C1_UnitPerCluster ==
    \A c \in Calls :
        Started(c) =>
            LET cl == NormalizedClusters(c)
                units == sanitized_clusters[c]
            IN  /\ Len(units) <= Len(cl)
                /\ \A i \in 1..Len(units) : units[i] \in {cl[i], args[c].replacement}
                /\ pc[c] = "returned" =>
                       /\ Len(units) = Len(cl)
                       /\ result[c] = Join(units)

\* a call has returned in which normalization changed the text, a cluster was
\* kept and a later cluster became a non-empty replacement
C1_Witness ==
    \E c \in Calls :
        /\ pc[c] = "returned"
        /\ NFKC(args[c].text) # args[c].text
        /\ args[c].replacement # << >>
        /\ \E i, j \in 1..Len(should_replace[c]) :
               /\ j < i
               /\ should_replace[c][i]
               /\ ~should_replace[c][j]
               /\ result[c] = clusters[c][j] \o args[c].replacement

\* C2: with the default max_tokens, allow_emoji and strict_mode, when the
\* replacement holds no code point of the merged disallowed set, the returned
\* string holds none either; with the default disallowed set and the empty
\* replacement it never holds U+200B.
C2_NoDisallowedInOutput ==
    \A c \in Calls :
        (pc[c] = "returned" /\ Chars(args[c].replacement) \cap MergedDisallowed(c) = {})
            => Chars(result[c]) \cap MergedDisallowed(c) = {}

\* a default-configuration call on a text with U+200B has returned some text
C2_Witness ==
    \E c \in Calls :
        /\ pc[c] = "returned"
        /\ args[c].custom_disallowed = {}
        /\ args[c].replacement = << >>
        /\ ZWSP \in Chars(args[c].text)
        /\ VS16 \in Chars(args[c].text)
        /\ result[c] # << >>

\* C3: a cluster that triggers none of the disallowed, emoji and category checks
\* is kept unchanged when the tokenizer returns exactly max_tokens tokens for
\* it, and replaced when it returns max_tokens + 1.
C3_TokenBoundary ==
    \A c \in Calls :
        LET normalized == NormalizedClusters(c) IN
        \A i \in 1..Len(should_replace[c]) :
            LET cl == normalized[i] IN
            (~TriggersEarly(c, cl) /\ ~TokenizerRaises(args[c].tokenizer, cl)) =>
                /\ TokenCount(c, cl) = args[c].max_tokens =>
                       ~should_replace[c][i] /\ sanitized_clusters[c][i] = cl
                /\ TokenCount(c, cl) = args[c].max_tokens + 1 =>
                       should_replace[c][i]
                         /\ sanitized_clusters[c][i] = args[c].replacement

\* a call has returned that kept a cluster of exactly max_tokens tokens and
\* replaced one of max_tokens + 1
C3_Witness ==
    \E c \in Calls :
        /\ pc[c] = "returned"
        /\ args[c].replacement # << >>
        /\ \E i, j \in 1..Len(clusters[c]) :
               /\ ~TriggersEarly(c, clusters[c][i])
               /\ ~TriggersEarly(c, clusters[c][j])
               /\ TokenCount(c, clusters[c][i]) = args[c].max_tokens
               /\ TokenCount(c, clusters[c][j]) = args[c].max_tokens + 1
               /\ sanitized_clusters[c][i] = clusters[c][i]
               /\ sanitized_clusters[c][j] = args[c].replacement

\* the replacement, sanitized on its own, comes back unchanged: each of its
\* clusters passes the four checks
ReplacementPasses(c) ==
    /\ NFKC(args[c].replacement) = args[c].replacement
    /\ \A i \in 1..Len(GRAPHEME_PATTERN(args[c].replacement)) :
           LET cl == GRAPHEME_PATTERN(args[c].replacement)[i] IN
           /\ ~TriggersEarly(c, cl)
           /\ ~TokenizerRaises(args[c].tokenizer, cl)
           /\ TokenCount(c, cl) <= args[c].max_tokens

\* C4: sanitizing the output of a call again, with the same tokenizer and a
\* configuration whose replacement passes the four checks, returns it unchanged.
C4_Idempotent ==
    \A c \in Calls :
        (pc[c] = "returned" /\ pass[c] >= 2 /\ ReplacementPasses(c))
            => result[c] = prevResult[c]

\* C5: a call with max_tokens < 1 fails at entry: it classifies no cluster,
\* never invokes the tokenizer and never returns a string.
C5_FailsFast ==
    \A c \in Calls :
        args[c].max_tokens < 1 =>
            /\ pc[c] # "returned"
            /\ should_replace[c] = << >>
            /\ tokenizerCalls[c] = << >>

\* C6: an invocation of the tokenizer that raises is the last one of the call,
\* the call ends with the error, and no string is returned.
C6_TokenizerFailure ==
    \A c \in Calls :
        /\ \A i \in 1..Len(tokenizerCalls[c]) :
               TokenizerRaises(args[c].tokenizer, tokenizerCalls[c][i]) =>
                   /\ i = Len(tokenizerCalls[c])
                   /\ pc[c] = "raised"
        /\ pc[c] = "raised" =>
               /\ result[c] = NoResult
               /\ tokenizerCalls[c] # << >>
               /\ TokenizerRaises(args[c].tokenizer,
                                  tokenizerCalls[c][Len(tokenizerCalls[c])])

\* a call has ended with the tokenizer's error after the tokenizer had
\* returned for an earlier cluster, with clusters left unhandled
C6_Witness ==
    \E c \in Calls :
        /\ pc[c] = "raised"
        /\ Len(tokenizerCalls[c]) >= 2
        /\ sanitized_clusters[c] # << >>
        /\ idx[c] < Len(clusters[c])

\* the expected output of the docstring example: the input without the emoji,
\* the zero width joiner and the zero width space
ExampleExpected ==
    LET Visible(cp) == cp \notin {CP.WAVE, ZWJ, ZWSP}
    IN  SelectSeq(ExampleText, Visible)

\* C7: with allow_emoji false, strict_mode true, max_tokens 3, the empty
\* replacement and the whitespace tokenizer, the example input comes back with
\* only the emoji, the ZWJ and the ZWSP removed.
C7_ExamplePassThrough ==
    \A c \in Calls :
        ( /\ pc[c] = "returned"
          /\ args[c].text = ExampleText
          /\ args[c].tokenizer = Tokenizer("split", 0)
          /\ ~args[c].allow_emoji
          /\ args[c].strict_mode )
            => result[c] = ExampleExpected

\* C8: the module-level sets never change, and the sets a call uses are the
\* defaults united with that call's own custom sets.
C8_ConfigurationIsolation ==
    /\ DEFAULT_DISALLOWED = DisallowedLiteral
    /\ DEFAULT_DANGEROUS_CATEGORIES = DangerousLiteral
    /\ \A c \in Calls :
           Started(c) =>
               /\ disallowed[c] = DisallowedLiteral \cup args[c].custom_disallowed
               /\ dangerous_categories[c] =
                      DangerousLiteral \cup args[c].custom_dangerous_categories

\* two calls are in their loops at once, one with custom sets and one without
C8_Witness ==
    \E c, d \in Calls :
        /\ c # d
        /\ pc[c] = "loop" /\ idx[c] > 1
        /\ pc[d] = "loop" /\ idx[d] > 1
        /\ args[c].custom_disallowed # {}
        /\ args[c].custom_dangerous_categories # {}
        /\ args[d].custom_disallowed = {}
        /\ args[d].custom_dangerous_categories = {}

\* C9: when the tokenizer returns for it, a cluster is replaced if and only if
\* it holds a disallowed code point, or allow_emoji is false and it holds an
\* Emoji code point, or strict_mode is true and it holds a code point of a
\* dangerous category, or its token count exceeds max_tokens.
C9_OutcomeIsDisjunction ==
    \A c \in Calls :
        LET normalized == NormalizedClusters(c) IN
        \A i \in 1..Len(should_replace[c]) :
            LET cl == normalized[i]
                reject == \/ HasDisallowed(c, cl)
                          \/ ~args[c].allow_emoji /\ HasEmoji(cl)
                          \/ args[c].strict_mode /\ HasDangerous(c, cl)
                          \/ TokenCount(c, cl) > args[c].max_tokens
            IN  ~TokenizerRaises(args[c].tokenizer, cl) =>
                    /\ should_replace[c][i] = reject
                    /\ sanitized_clusters[c][i] =
                           IF reject THEN args[c].replacement ELSE cl

\* a call with allow_emoji true and strict_mode false has returned, having
\* replaced an emoji cluster for its token count and kept a private-use one
C9_Witness ==
    \E c \in Calls :
        /\ pc[c] = "returned"
        /\ args[c].allow_emoji
        /\ ~args[c].strict_mode
        /\ \E i, j \in 1..Len(clusters[c]) :
               /\ HasEmoji(clusters[c][i]) /\ should_replace[c][i]
               /\ CP.PUA \in Chars(clusters[c][j]) /\ ~should_replace[c][j]

\* the clusters handled so far by call c: the one at idx too when the
\* tokenizer raised on it
HandledClusters(c) ==
    SubSeq(NormalizedClusters(c), 1, IF pc[c] = "raised" THEN idx[c] ELSE idx[c] - 1)

\* C10 as stated: when a call returns the tokenizer has been invoked once per
\* cluster of the normalized text, in cluster order.
C10_OncePerCluster ==
    \A c \in Calls :
        pc[c] = "returned" => tokenizerCalls[c] = NormalizedClusters(c)

\* C10 as amended: the tokenizer is invoked once, with the cluster's text, for
\* each cluster that triggers none of the disallowed, emoji and category
\* checks, in cluster order, and for no other cluster.
C10_OncePerUnrejectedCluster ==
    \A c \in Calls :
        Started(c) =>
            LET Passes(cl) == ~TriggersEarly(c, cl)
            IN  tokenizerCalls[c] = SelectSeq(HandledClusters(c), Passes)

\* a call has returned with a cluster of two code points tokenized whole and
\* another cluster not tokenized
C10_Witness ==
    \E c \in Calls :
        /\ pc[c] = "returned"
        /\ Len(tokenizerCalls[c]) < Len(clusters[c])
        /\ \E i \in 1..Len(tokenizerCalls[c]) : Len(tokenizerCalls[c][i]) >= 2

=============================================================================
